---- MODULE Spec2Model ----
(***************************************************************************)
(* Model of fba, the framebuffer GIF animation player (src/src/main.rs).   *)
(*                                                                         *)
(* Two specifications share the variables:                                 *)
(*   Spec           the whole program: main's load / decode / composite /  *)
(*                  flush / pace / loop cycle;                             *)
(*   SpecComposite  process_gif_frame alone, applied to a retained buffer  *)
(*                  for device geometries, offsets, frames and palettes    *)
(*                  drawn from bounded sets.                               *)
(*                                                                         *)
(* Option<T> is modelled as a sequence: <<>> is None, <<v>> is Some(v).    *)
(* Vec<u8> / &[u8] are sequences; a Rust index k is the TLA+ index k + 1.  *)
(***************************************************************************)
EXTENDS Integers, Sequences, FiniteSets, TLC

VARIABLES
    args,                 \* Args: interval, once, center
    fb_info,              \* FramebufferInfo: width, height, channels, alignment
    fb_frame,             \* the destination buffer main owns
    global_palette,       \* main's copy of the global palette
    offset,               \* Offset: x, y
    decoder,              \* the open gif::Decoder: the stream it reads, frames read
    frame_prepare_elapsed,\* ticks since frame_prepare_time was last set
    pc,                   \* position in main ("done": the playback loop was left)
    result,               \* how the run ended (or "running")
    opens,                \* number of successful get_gif_decoder calls
    changed,              \* the file at the path differed at some re-open
    flushes,              \* buffers handed to fb.write_frame in this cycle
    prevFlushes,          \* the same, for the previous cycle
    last,                 \* the last process_gif_frame call: inputs and effects
    paced,                \* the last postpone_next_frame call: inputs and sleep
    calls                 \* number of process_gif_frame calls so far

vars == <<args, fb_info, fb_frame, global_palette, offset, decoder,
          frame_prepare_elapsed, pc, result, opens, changed, flushes,
          prevFlushes, last, paced, calls>>

----------------------------------------------------------------------------
(* Bounds of the model                                                     *)

MaxChannels == 4      \* bits_per_pixel is 8, 16, ... 8*MaxChannels
MaxPad == 1           \* line_length - xres*channels is 0..MaxPad
MaxSlack == 0         \* fb.frame.len() - line_length*yres is 0..MaxSlack
MaxCycles == 3        \* passes over the file that main is followed through
MaxElapsed == 3       \* ticks the clock is followed past a checkpoint
TicksPerMs == 2       \* clock resolution: ticks per millisecond

CanvasDims == 1..2    \* xres, yres
FrameDims == 1..2     \* gif_frame.width, gif_frame.height
FramePos == 0..1      \* gif_frame.left, gif_frame.top
Offsets == -1..1      \* offset.x, offset.y in SpecComposite
Indices == 0..1       \* colour indices in a frame's buffer

----------------------------------------------------------------------------
(* Helpers                                                                 *)

Max(a, b) == IF a >= b THEN a ELSE b

\* Rust's integer division, which truncates toward zero (a / b, b > 0).
TruncDiv(a, b) == IF a >= 0 THEN a \div b ELSE -((-a) \div b)

\* vec![0; n]
Zeros(n) == [k \in 1..n |-> 0]

\* slice::chunks: consecutive pieces of n elements, the last one shorter
\* when n does not divide the length.
chunks(buffer, n) ==
    [c \in 1..((Len(buffer) + n - 1) \div n) |->
        SubSeq(buffer, (c - 1) * n + 1,
               IF c * n <= Len(buffer) THEN c * n ELSE Len(buffer))]

NoPanic == [kind |-> "none", index |-> 0, len |-> 0]

\* "index out of bounds: the len is {len} but the index is {index}"
IndexPanic(kind, index, len) == [kind |-> kind, index |-> index, len |-> len]

----------------------------------------------------------------------------
(* process_gif_frame                                                       *)

\* The loop state of process_gif_frame: the buffer, the panic that ended
\* the call (if any), and a log of what the call did:
\*   drawn   source pixels that reached the pixel write (line 156), with
\*           their destination coordinates and byte index i,
\*   stores  the byte indices (Rust, 0-based) that were stored to,
\*   fault   the source pixel whose write panicked.
LoopState(fb) ==
    [fb |-> fb, panic |-> NoPanic, drawn |-> {}, stores |-> {}, fault |-> <<>>]

\* The break tests of lines 137 and 146 with a weaker comparison.
PastFarEdgeOffByOne(v, limit) == v > limit

\* `if y >= fb_info.height { break; }` and `if x >= fb_info.width { break; }`
past_far_edge(v, limit) == v >= limit

\* A transparency test that is never taken.
TransparencyIgnored(gif_frame, pixel) == FALSE

\* `if let Some(transparent) = gif_frame.transparent { if *pixel == transparent`
is_transparent(gif_frame, pixel) ==
    /\ gif_frame.transparent # <<>>
    /\ pixel = gif_frame.transparent[1]

\* let i = ((y * fb_info.width + x) * fb_info.channels + y * fb_info.alignment)
dest_index(x, y, info) ==
    (y * info.width + x) * info.channels + y * info.alignment

\* A store that adds the palette byte to the byte already there.
AssignAccumulates(st, i, gif_palette, k, px) ==
    IF st.panic.kind # "none" THEN st
    ELSE IF k >= Len(gif_palette)
    THEN [st EXCEPT !.panic = IndexPanic("palette", k, Len(gif_palette)),
                    !.fault = <<px>>]
    ELSE IF i >= Len(st.fb)
    THEN [st EXCEPT !.panic = IndexPanic("dest", i, Len(st.fb)),
                    !.fault = <<px>>]
    ELSE [st EXCEPT !.fb[i + 1] = (@ + gif_palette[k + 1]) % 256,
                    !.stores = @ \cup {i}]

\* One statement `fb_frame[i] = gif_palette[k]`: the right operand is
\* evaluated first (the palette read, with its bounds check), then the
\* place (the buffer's bounds check), then the store. A failed bounds check
\* panics and ends the call.
assign(st, i, gif_palette, k, px) ==
    IF st.panic.kind # "none" THEN st
    ELSE IF k >= Len(gif_palette)
    THEN [st EXCEPT !.panic = IndexPanic("palette", k, Len(gif_palette)),
                    !.fault = <<px>>]
    ELSE IF i >= Len(st.fb)
    THEN [st EXCEPT !.panic = IndexPanic("dest", i, Len(st.fb)),
                    !.fault = <<px>>]
    ELSE [st EXCEPT !.fb[i + 1] = gif_palette[k + 1],
                    !.stores = @ \cup {i}]

\* Lines 156-161: the three stores of one pixel, palette bytes reversed.
write_pixel(st, px, gif_palette, info) ==
    LET i == dest_index(px.x, px.y, info)
        j == px.pixel * 3
        s0 == [st EXCEPT !.drawn = @ \cup {[px EXCEPT !.i = i]}]
        s1 == assign(s0, i, gif_palette, j + 2, px)
        s2 == assign(s1, i + 1, gif_palette, j + 1, px)
    IN  assign(s2, i + 2, gif_palette, j, px)

\* Lines 141-162: the loop over one line, from its xi-th pixel (1-based).
RECURSIVE line_loop(_, _, _, _, _, _, _, _, _)
line_loop(line, xi, sy, y, gif_frame, gif_palette, st, info, off) ==
    IF xi > Len(line) \/ st.panic.kind # "none" THEN st
    ELSE
        LET x == (xi - 1) + off.x + gif_frame.left
            pixel == line[xi]
            px == [sx |-> xi - 1, sy |-> sy, x |-> x, y |-> y,
                   pixel |-> pixel, i |-> 0]
        IN  IF x < 0
            THEN line_loop(line, xi + 1, sy, y, gif_frame, gif_palette, st, info, off)
            ELSE IF past_far_edge(x, info.width) THEN st
            ELSE IF is_transparent(gif_frame, pixel)
            THEN line_loop(line, xi + 1, sy, y, gif_frame, gif_palette, st, info, off)
            ELSE line_loop(line, xi + 1, sy, y, gif_frame, gif_palette,
                           write_pixel(st, px, gif_palette, info), info, off)

\* Lines 131-163: the loop over the lines, from the yi-th one (1-based).
RECURSIVE lines_loop(_, _, _, _, _, _, _)
lines_loop(lines, yi, gif_frame, gif_palette, st, info, off) ==
    IF yi > Len(lines) \/ st.panic.kind # "none" THEN st
    ELSE
        LET y == (yi - 1) + off.y + gif_frame.top
        IN  IF y < 0
            THEN lines_loop(lines, yi + 1, gif_frame, gif_palette, st, info, off)
            ELSE IF past_far_edge(y, info.height) THEN st
            ELSE lines_loop(lines, yi + 1, gif_frame, gif_palette,
                            line_loop(lines[yi], 1, yi - 1, y, gif_frame,
                                      gif_palette, st, info, off),
                            info, off)

\* fn process_gif_frame(gif_frame, gif_palette, fb_frame, fb_info, offset)
process_gif_frame(gif_frame, gif_palette, fb, info, off) ==
    lines_loop(chunks(gif_frame.buffer, gif_frame.width), 1,
               gif_frame, gif_palette, LoopState(fb), info, off)

----------------------------------------------------------------------------
(* The device, the file and the arguments                                  *)

\* What Framebuffer::new reports: var_screen_info.xres, .yres,
\* .bits_per_pixel, fix_screen_info.line_length, and fb.frame.len().
Device(xres, yres, bpp, pad, slack) ==
    [xres |-> xres, yres |-> yres, bits_per_pixel |-> bpp,
     line_length |-> xres * (bpp \div 8) + pad,
     frame_len |-> yres * (xres * (bpp \div 8) + pad) + slack]

\* fn get_framebuffer_info(fb) -> FramebufferInfo
get_framebuffer_info(fb) ==
    LET channels == fb.bits_per_pixel \div 8
    IN  [width |-> fb.xres,
         height |-> fb.yres,
         channels |-> channels,
         alignment |-> fb.line_length - fb.xres * channels]

\* A gif::Frame with ColorOutput::Indexed: buffer holds width*height indices.
Frame(width, height, left, top, transparent, palette, buffer, delay) ==
    [width |-> width, height |-> height, left |-> left, top |-> top,
     transparent |-> transparent, palette |-> palette, buffer |-> buffer,
     delay |-> delay]

\* Frame data that read_next_frame cannot decode.
Corrupt == [corrupt |-> TRUE]

\* Palettes: flat RGB triples. G and H have two entries, L has one.
G == <<1, 2, 3, 4, 5, 6>>
H == <<11, 12, 13, 14, 15, 16>>
L == <<7, 8, 9>>

\* The frames and palettes process_gif_frame is applied to in SpecComposite.
CompositeFrames ==
    UNION { UNION {
        { Frame(w, h, l, t, tr, <<>>, b, 0) :
            l \in FramePos, t \in FramePos, tr \in {<<>>, <<0>>},
            b \in [1..(w * h) -> Indices] }
        : h \in FrameDims } : w \in FrameDims }

CompositePalettes == {G, L}

CompositeDevices ==
    { Device(w, h, 8 * c, pad, slack) :
        w \in CanvasDims, h \in CanvasDims, c \in 1..MaxChannels,
        pad \in 0..MaxPad, slack \in 0..MaxSlack }

\* The devices, files and arguments main is run with in Spec.
PlayDevices == { Device(2, 1, 32, 0, 0), Device(1, 1, 16, 0, 0) }

\* 1x1 frames at the canvas origin: opaque ones with and without a local
\* palette, transparent ones (whose palette is never read) without.
PlayFrames ==
    { Frame(1, 1, 0, 0, <<>>, pal, <<0>>, d) : pal \in {<<>>, <<L>>}, d \in 0..1 }
    \cup { Frame(1, 1, 0, 0, <<0>>, <<>>, <<0>>, d) : d \in 0..1 }

MaxFrames == 2

Screens == {4}

RECURSIVE SeqsUpTo(_, _)
SeqsUpTo(S, n) ==
    IF n = 0 THEN {<<>>}
    ELSE LET shorter == SeqsUpTo(S, n - 1)
         IN  shorter \cup { Append(q, e) : q \in shorter, e \in S }

\* The GIF file at args.gif_file: whether it opens and its header parses,
\* the logical screen size, the global palette, the frame data.
File(ok, width, height, palette, frames) ==
    [ok |-> ok, width |-> width, height |-> height,
     global_palette |-> palette, frames |-> frames]

BadFile == File(FALSE, 0, 0, <<>>, <<>>)

Files ==
    { File(TRUE, sw, 1, gp, fs) :
        sw \in Screens, gp \in {<<>>, <<G>>, <<H>>},
        fs \in SeqsUpTo(PlayFrames \cup {Corrupt}, MaxFrames) }
    \cup {BadFile}

Intervals == {1, 2}

----------------------------------------------------------------------------
(* main                                                                    *)

\* How the run ended: the kind of exit, the error it reports, and what the
\* message tells (frame: the 1-based frame it names, 0 when it names none).
Running == [kind |-> "running", error |-> "", frame |-> 0, index |-> 0, len |-> 0]

\* main returned Ok(()).
ExitOk == [kind |-> "Ok", error |-> "", frame |-> 0, index |-> 0, len |-> 0]

\* main returned Err(e) through `?`.
ExitErr(error) ==
    [kind |-> "Err", error |-> error, frame |-> 0, index |-> 0, len |-> 0]

\* The thread panicked on a failed bounds check:
\* "index out of bounds: the len is {len} but the index is {index}".
ExitPanic(panic) ==
    [kind |-> "panic", error |-> "index out of bounds", frame |-> 0,
     index |-> panic.index, len |-> panic.len]

NoCall == [made |-> FALSE]
NoPace == [made |-> FALSE]

\* Duration::as_millis: whole milliseconds, the rest dropped.
as_millis(ticks) == ticks \div TicksPerMs

\* A pacing that sleeps the whole delay, whatever time has passed.
PostponeIgnoresElapsed(delay, elapsed) == IF delay > 0 THEN <<delay>> ELSE <<>>

\* fn postpone_next_frame(delay, elapsed): the sleep it asks for, in
\* milliseconds (<<>> when thread::sleep is not called).
postpone_next_frame(delay, elapsed) ==
    LET elapsed_time == as_millis(elapsed)
    IN  IF elapsed_time < delay
        THEN LET remaining_time == delay - elapsed_time
             IN  <<remaining_time>>
        ELSE <<>>

\* Lines 187-194: the offset, centred on the GIF's logical screen or zero.
compute_offset(center, info, stream) ==
    IF center
    THEN [x |-> TruncDiv(info.width - stream.width, 2),
          y |-> TruncDiv(info.height - stream.height, 2)]
    ELSE [x |-> 0, y |-> 0]

\* fn get_gif_decoder(gif_file): a decoder at the beginning of the file.
get_gif_decoder(file) == [stream |-> file, pos |-> 0]

\* decoder.global_palette().unwrap_or_default().to_vec()
read_global_palette(dec) ==
    IF dec.stream.global_palette = <<>> THEN <<>> ELSE dec.stream.global_palette[1]

\* A palette resolved against the stream the decoder now reads, not against
\* main's copy of the global palette.
ResolveFromOpenStream(gif_frame, global) ==
    IF gif_frame.palette = <<>> THEN read_global_palette(decoder)
    ELSE gif_frame.palette[1]

\* gif_frame.palette.as_ref().unwrap_or(&global_palette)
resolve_palette(gif_frame, global) ==
    IF gif_frame.palette = <<>> THEN global ELSE gif_frame.palette[1]

\* The state main has built when it reaches line 181, for a device and
\* arguments: the buffer is zero-filled, the pacing checkpoint just set.
Init ==
    /\ \E interval \in Intervals, once \in BOOLEAN, center \in BOOLEAN :
           args = [interval |-> interval, once |-> once, center |-> center]
    /\ \E fb \in PlayDevices :
           /\ fb_info = get_framebuffer_info(fb)
           /\ fb_frame = Zeros(fb.frame_len)
    /\ frame_prepare_elapsed = 0
    /\ global_palette = <<>>
    /\ offset = [x |-> 0, y |-> 0]
    /\ decoder = get_gif_decoder(BadFile)
    /\ pc = "load"
    /\ result = Running
    /\ opens = 0
    /\ changed = FALSE
    /\ flushes = <<>>
    /\ prevFlushes = <<>>
    /\ last = NoCall
    /\ paced = NoPace
    /\ calls = 0

\* Time passes. The time the open, the decode, the composite and the write
\* have taken since the checkpoint is observed only at line 205, so it is
\* let pass there.
Tick ==
    /\ pc = "pace"
    /\ frame_prepare_elapsed < MaxElapsed
    /\ frame_prepare_elapsed' = frame_prepare_elapsed + 1
    /\ UNCHANGED <<args, fb_info, fb_frame, global_palette, offset, decoder,
                   pc, result, opens, changed, flushes, prevFlushes, last,
                   paced, calls>>

\* Lines 181-194: open the file, copy the global palette, compute the offset.
Load ==
    /\ pc = "load"
    /\ \E file \in Files :
        IF ~file.ok
        THEN /\ pc' = "exit"
             /\ result' = ExitErr("DecodingError")
             /\ UNCHANGED <<decoder, global_palette, offset, opens>>
        ELSE /\ decoder' = get_gif_decoder(file)
             /\ global_palette' = read_global_palette(decoder')
             /\ offset' = compute_offset(args.center, fb_info, file)
             /\ opens' = 1
             /\ pc' = "read"
             /\ UNCHANGED result
    /\ UNCHANGED <<args, fb_info, fb_frame, frame_prepare_elapsed, changed,
                   flushes, prevFlushes, last, paced, calls>>

\* Line 198, Some(gif_frame): the next frame is decoded.
DecodeFrame ==
    /\ pc = "read"
    /\ decoder.pos < Len(decoder.stream.frames)
    /\ decoder.stream.frames[decoder.pos + 1] # Corrupt
    /\ decoder' = [decoder EXCEPT !.pos = @ + 1]
    /\ pc' = "frame"
    /\ paced' = NoPace
    /\ UNCHANGED <<args, fb_info, fb_frame, global_palette, offset,
                   frame_prepare_elapsed, result, opens, changed, flushes,
                   prevFlushes, last, calls>>

\* Line 198, Err(e)?: the frame data cannot be decoded and main returns.
DecodeError ==
    /\ pc = "read"
    /\ decoder.pos < Len(decoder.stream.frames)
    /\ decoder.stream.frames[decoder.pos + 1] = Corrupt
    /\ pc' = "exit"
    /\ result' = ExitErr("DecodingError")
    /\ paced' = NoPace
    /\ UNCHANGED <<args, fb_info, fb_frame, global_palette, offset, decoder,
                   frame_prepare_elapsed, opens, changed, flushes,
                   prevFlushes, last, calls>>

\* Line 198, None: the stream has ended and the while loop is left.
EndOfStream ==
    /\ pc = "read"
    /\ decoder.pos = Len(decoder.stream.frames)
    /\ pc' = "eos"
    /\ paced' = NoPace
    /\ UNCHANGED <<args, fb_info, fb_frame, global_palette, offset, decoder,
                   frame_prepare_elapsed, result, opens, changed, flushes,
                   prevFlushes, last, calls>>

\* Lines 199-202: resolve the palette, composite, write the buffer to the
\* device. A panic in process_gif_frame ends the run before write_frame.
ProcessFrame ==
    /\ pc = "frame"
    /\ LET gif_frame == decoder.stream.frames[decoder.pos]
           gif_palette == resolve_palette(gif_frame, global_palette)
           st == process_gif_frame(gif_frame, gif_palette, fb_frame,
                                   fb_info, offset)
       IN  /\ fb_frame' = st.fb
           /\ last' = [made |-> TRUE, frame |-> gif_frame,
                       palette |-> gif_palette, before |-> fb_frame,
                       panic |-> st.panic, drawn |-> st.drawn,
                       stores |-> st.stores, fault |-> st.fault]
           /\ IF st.panic.kind # "none"
              THEN /\ pc' = "exit"
                   /\ result' = ExitPanic(st.panic)
                   /\ UNCHANGED flushes
              ELSE /\ pc' = "pace"
                   /\ flushes' = Append(flushes, st.fb)
                   /\ UNCHANGED result
    /\ UNCHANGED <<args, fb_info, global_palette, offset, decoder,
                   frame_prepare_elapsed, opens, changed, prevFlushes, paced,
                   calls>>

\* Lines 204-206: the delay, the sleep, the new pacing checkpoint.
Postpone ==
    /\ pc = "pace"
    /\ LET gif_frame == decoder.stream.frames[decoder.pos]
           delay == args.interval * gif_frame.delay
       IN  paced' = [made |-> TRUE, delay |-> delay,
                     elapsed |-> frame_prepare_elapsed,
                     sleep |-> postpone_next_frame(delay, frame_prepare_elapsed)]
    /\ frame_prepare_elapsed' = 0
    /\ last' = NoCall
    /\ pc' = "read"
    /\ UNCHANGED <<args, fb_info, fb_frame, global_palette, offset, decoder,
                   result, opens, changed, flushes, prevFlushes, calls>>

\* The test of line 210 inverted.
BreakWhenLooping ==
    /\ pc = "eos"
    /\ ~args.once
    /\ pc' = "done"
    /\ UNCHANGED <<args, fb_info, fb_frame, global_palette, offset, decoder,
                   frame_prepare_elapsed, result, opens, changed, flushes,
                   prevFlushes, last, paced, calls>>

\* Lines 209-212: played once, the playback loop is left.
Break ==
    /\ pc = "eos"
    /\ args.once
    /\ pc' = "done"
    /\ UNCHANGED <<args, fb_info, fb_frame, global_palette, offset, decoder,
                   frame_prepare_elapsed, result, opens, changed, flushes,
                   prevFlushes, last, paced, calls>>

\* Lines 218-221: the console is set back to text mode, which may fail,
\* and main returns.
Restore ==
    /\ pc = "done"
    /\ pc' = "returned"
    /\ \E restored \in BOOLEAN :
           result' = IF restored THEN ExitOk ELSE ExitErr("FramebufferError")
    /\ UNCHANGED <<args, fb_info, fb_frame, global_palette, offset, decoder,
                   frame_prepare_elapsed, opens, changed, flushes,
                   prevFlushes, last, paced, calls>>

\* Line 215: the decoder is created again from the file now at the path,
\* which the environment may have replaced during the first pass.
Reopen ==
    /\ pc = "eos"
    /\ ~args.once
    /\ opens < MaxCycles
    /\ \E file \in Files :
        /\ file = decoder.stream \/ opens = 1
        /\ IF ~file.ok
           THEN /\ pc' = "exit"
                /\ result' = ExitErr("DecodingError")
                /\ UNCHANGED <<decoder, opens, changed, flushes, prevFlushes>>
           ELSE /\ decoder' = get_gif_decoder(file)
                /\ opens' = opens + 1
                /\ changed' = (changed \/ file # decoder.stream)
                /\ prevFlushes' = IF changed' THEN <<>> ELSE flushes
                /\ flushes' = <<>>
                /\ pc' = "read"
                /\ UNCHANGED result
    /\ UNCHANGED <<args, fb_info, fb_frame, global_palette, offset,
                   frame_prepare_elapsed, last, paced, calls>>

Next ==
    \/ Tick
    \/ Load
    \/ DecodeFrame
    \/ DecodeError
    \/ EndOfStream
    \/ ProcessFrame
    \/ Postpone
    \/ Break
    \/ Restore
    \/ Reopen

Spec == Init /\ [][Next]_vars

----------------------------------------------------------------------------
(* process_gif_frame on its own                                            *)

\* A device, an offset and the zero-filled buffer main creates for it.
InitComposite ==
    /\ \E fb \in CompositeDevices :
           /\ fb_info = get_framebuffer_info(fb)
           /\ fb_frame = Zeros(fb.frame_len)
    /\ \E x \in Offsets, y \in Offsets : offset = [x |-> x, y |-> y]
    /\ args = [interval |-> 0, once |-> TRUE, center |-> FALSE]
    /\ frame_prepare_elapsed = 0
    /\ global_palette = <<>>
    /\ decoder = get_gif_decoder(BadFile)
    /\ pc = "composite"
    /\ result = Running
    /\ opens = 0
    /\ changed = FALSE
    /\ flushes = <<>>
    /\ prevFlushes = <<>>
    /\ last = NoCall
    /\ paced = NoPace
    /\ calls = 0

\* The effect of one process_gif_frame call on the variables. A panic ends
\* the process.
Call(gif_frame, gif_palette) ==
    LET st == process_gif_frame(gif_frame, gif_palette, fb_frame,
                                fb_info, offset)
    IN  /\ fb_frame' = st.fb
        /\ last' = [made |-> TRUE, frame |-> gif_frame,
                    palette |-> gif_palette, before |-> fb_frame,
                    panic |-> st.panic, drawn |-> st.drawn,
                    stores |-> st.stores, fault |-> st.fault]
        /\ calls' = calls + 1
        /\ IF st.panic.kind # "none"
           THEN /\ pc' = "exit"
                /\ result' = ExitPanic(st.panic)
           ELSE UNCHANGED <<pc, result>>

\* The frame of f's shape whose pixels all are its transparent index t.
AllTransparent(f, t) ==
    [f EXCEPT !.transparent = <<t>>,
              !.buffer = [k \in 1..Len(f.buffer) |-> t]]

\* The first call, for any frame and palette, on the zero-filled buffer.
CompositeA ==
    /\ pc = "composite"
    /\ calls = 0
    /\ \E gif_frame \in CompositeFrames, gif_palette \in CompositePalettes :
           Call(gif_frame, gif_palette)
    /\ UNCHANGED <<args, fb_info, global_palette, offset, decoder,
                   frame_prepare_elapsed, opens, changed, flushes,
                   prevFlushes, paced>>

\* The second call, on the buffer the first one left: a frame of the same
\* shape whose pixels all are its transparent index.
CompositeB ==
    /\ pc = "composite"
    /\ calls = 1
    /\ \E t \in Indices, gif_palette \in CompositePalettes :
           Call(AllTransparent(last.frame, t), gif_palette)
    /\ UNCHANGED <<args, fb_info, global_palette, offset, decoder,
                   frame_prepare_elapsed, opens, changed, flushes,
                   prevFlushes, paced>>

NextComposite == CompositeA \/ CompositeB

SpecComposite == InitComposite /\ [][NextComposite]_vars

----------------------------------------------------------------------------
(* What the specification says of a composite call, stated on its inputs    *)

\* The source pixels of a frame, (sx, sy) with sx < width and sy < height.
SourcePixels(f) ==
    { [sx |-> sx, sy |-> sy] : sx \in 0..(f.width - 1), sy \in 0..(f.height - 1) }

\* p = frame.pixels[y*frame.width + x]
IndexAt(f, q) == f.buffer[q.sy * f.width + q.sx + 1]

\* destX = x + frame.left + offset.x, destY = y + frame.top + offset.y
DestX(f, q) == q.sx + f.left + offset.x
DestY(f, q) == q.sy + f.top + offset.y

InCanvas(f, q) ==
    /\ 0 <= DestX(f, q) /\ DestX(f, q) < fb_info.width
    /\ 0 <= DestY(f, q) /\ DestY(f, q) < fb_info.height

Opaque(f, q) == f.transparent = <<>> \/ IndexAt(f, q) # f.transparent[1]

\* o = (destY*width + destX)*channelsPerPixel + destY*rowPaddingBytes
ByteOffset(dx, dy) ==
    (dy * fb_info.width + dx) * fb_info.channels + dy * fb_info.alignment

\* Row-major order of the source pixels: q comes before r.
Before(q, r) == q.sy < r.sy \/ (q.sy = r.sy /\ q.sx < r.sx)

\* The source pixels the call had to draw: in the canvas and not transparent.
Visible(f) == { q \in SourcePixels(f) : InCanvas(f, q) /\ Opaque(f, q) }

\* The bytes of destination pixel (dx, dy): channelsPerPixel bytes from o.
BytesOfPixel(dx, dy) ==
    ByteOffset(dx, dy)..(ByteOffset(dx, dy) + fb_info.channels - 1)

AllTransparentFrame(f) ==
    /\ f.transparent # <<>>
    /\ \A k \in 1..Len(f.buffer) : f.buffer[k] = f.transparent[1]

\* The frame's placement covers the whole canvas.
CoversCanvas(f) ==
    \A dx \in 0..(fb_info.width - 1), dy \in 0..(fb_info.height - 1) :
        \E q \in SourcePixels(f) : DestX(f, q) = dx /\ DestY(f, q) = dy

\* Destination length >= height*(width*channelsPerPixel + rowPaddingBytes).
BufferInvariant ==
    Len(fb_frame) >=
        fb_info.height * (fb_info.width * fb_info.channels + fb_info.alignment)

----------------------------------------------------------------------------
(* Claims about process_gif_frame, under SpecComposite                     *)

\* C4: a source pixel whose destination coordinate is outside the canvas
\* causes no write, for negative offsets too: every pixel the call draws
\* is a source pixel placed inside the canvas, every byte that was stored
\* or changed is one of the three bytes of such a pixel, and the breaks at
\* the far edges skip no pixel inside the canvas: every visible pixel is
\* drawn, up to the pixel at which a panic ended the call.
C4_NoWriteOutsideCanvas ==
    last.made =>
        LET f == last.frame
            drawn == { [sx |-> d.sx, sy |-> d.sy] : d \in last.drawn }
        IN  /\ drawn \subseteq { q \in SourcePixels(f) : InCanvas(f, q) }
            /\ \A d \in last.drawn :
                   LET q == [sx |-> d.sx, sy |-> d.sy]
                   IN  /\ d.x = DestX(f, q) /\ d.y = DestY(f, q)
                       /\ d.i = ByteOffset(d.x, d.y)
            /\ \A k \in last.stores \cup
                        { n \in 0..(Len(fb_frame) - 1) :
                              fb_frame[n + 1] # last.before[n + 1] } :
                   \E d \in last.drawn : k \in d.i..(d.i + 2)
            /\ \A q \in Visible(f) :
                   \/ q \in drawn
                   \/ /\ last.fault # <<>>
                      /\ Before([sx |-> last.fault[1].sx,
                                 sy |-> last.fault[1].sy], q)

\* C4 witness: a call with a pixel left of the canvas, a pixel below it
\* and a pixel drawn, under a negative offset.
C4_Witness ==
    /\ last.made
    /\ last.panic.kind = "none"
    /\ offset.x < 0
    /\ \E q \in SourcePixels(last.frame) : DestX(last.frame, q) < 0
    /\ \E q \in SourcePixels(last.frame) : DestY(last.frame, q) >= fb_info.height
    /\ last.drawn # {}

\* C5: a frame whose pixels all equal its transparent index leaves every
\* byte of the buffer as the frame before it left it (and cannot fail).
C5_TransparentLeavesBuffer ==
    (last.made /\ AllTransparentFrame(last.frame)) =>
        /\ fb_frame = last.before
        /\ last.stores = {}
        /\ last.panic.kind = "none"

\* C5 witness: frame A drew into the buffer, then the all-transparent
\* frame B of A's shape was composited with pixels inside the canvas.
C5_Witness ==
    /\ calls = 2
    /\ AllTransparentFrame(last.frame)
    /\ last.before # Zeros(Len(last.before))
    /\ \E q \in SourcePixels(last.frame) : InCanvas(last.frame, q)

\* C6: for every geometry with channelsPerPixel >= 1 and rowPaddingBytes
\* >= 0, the call stores only to bytes o, o+1, o+2 of the pixels it draws,
\* and each such byte belongs to that very pixel: no row padding byte, no
\* byte of another pixel, no byte past the pixel's first three channels.
C6_OnlyOwnPixelBytes ==
    (last.made /\ fb_info.channels >= 1 /\ fb_info.alignment >= 0) =>
        \A k \in last.stores :
            \E d \in last.drawn :
                /\ k \in ByteOffset(d.x, d.y)..(ByteOffset(d.x, d.y) + 2)
                /\ k \in BytesOfPixel(d.x, d.y)

\* C7: for a frame without transparent index that covers the whole canvas
\* and whose indices are all within the palette, after the call every
\* canvas pixel holds, at o, o+1, o+2, the palette bytes 3p+2, 3p+1, 3p of
\* the source pixel mapped to it.
C7_FullCoverMapping ==
    (/\ last.made
     /\ last.frame.transparent = <<>>
     /\ CoversCanvas(last.frame)
     /\ \A q \in SourcePixels(last.frame) :
            3 * IndexAt(last.frame, q) + 3 <= Len(last.palette)
     /\ last.panic.kind = "none") =>
        \A q \in SourcePixels(last.frame) :
            InCanvas(last.frame, q) =>
                LET o == ByteOffset(DestX(last.frame, q), DestY(last.frame, q))
                    p == IndexAt(last.frame, q)
                IN  /\ fb_frame[o + 1] = last.palette[3 * p + 2 + 1]
                    /\ fb_frame[o + 2] = last.palette[3 * p + 1 + 1]
                    /\ fb_frame[o + 3] = last.palette[3 * p + 1]

\* C10: when the buffer invariant holds, every index the call writes
\* (o, o+1, o+2) lies inside the destination buffer, so no call faults on
\* an out-of-range destination write.
C10_WritesInsideBuffer ==
    (last.made /\ BufferInvariant) =>
        /\ last.panic.kind # "dest"
        /\ \A d \in last.drawn : d.i + 2 < Len(fb_frame)

----------------------------------------------------------------------------
(* Claims about main, under Spec                                           *)

\* The global palette of a stream, empty when it has none.
StreamGlobal(stream) ==
    IF stream.global_palette = <<>> THEN <<>> ELSE stream.global_palette[1]

\* The palette the specification resolves for a frame of a stream.
ResolvedPalette(f, stream) ==
    IF f.palette # <<>> THEN f.palette[1] ELSE StreamGlobal(stream)

\* Every frame of the stream decodes.
StreamDecodes(stream) ==
    /\ stream.ok
    /\ \A k \in 1..Len(stream.frames) : stream.frames[k] # Corrupt

\* Compositing f cannot fail: every visible pixel's index is within the
\* resolved palette and its three bytes are inside the buffer.
CompositesSafely(f, stream) ==
    \A q \in Visible(f) :
        /\ 3 * IndexAt(f, q) + 3 <= Len(ResolvedPalette(f, stream))
        /\ ByteOffset(DestX(f, q), DestY(f, q)) + 2 < Len(fb_frame)

\* The buffers flushed when the first n frames of a stream are composited
\* in stream order onto the zero-filled buffer, one flush per frame.
RECURSIVE Played(_, _)
Played(stream, n) ==
    IF n = 0 THEN <<>>
    ELSE LET sofar == Played(stream, n - 1)
             start == IF n = 1 THEN Zeros(Len(fb_frame)) ELSE sofar[n - 1]
             f == stream.frames[n]
         IN  Append(sofar,
                    process_gif_frame(f, ResolvedPalette(f, stream), start,
                                      fb_info, offset).fb)

\* The visible pixels of the last call whose index is beyond the palette
\* and that the call reached: no visible pixel before them is beyond it.
ReachedBeyondPalette ==
    { q \in Visible(last.frame) :
        /\ 3 * IndexAt(last.frame, q) + 3 > Len(last.palette)
        /\ \A r \in Visible(last.frame) :
               Before(r, q) => 3 * IndexAt(last.frame, r) + 3 <= Len(last.palette) }

\* C1: when composite reaches a visible pixel whose index p is beyond the
\* resolved palette (3p+3 > palette length), the run ends in a
\* PaletteBoundsError that names the frame and the index p, and no byte of
\* that pixel is written.
C1_PaletteBoundsError ==
    (last.made /\ last.panic.kind # "dest") =>
        \A q \in ReachedBeyondPalette :
            /\ result.kind = "Err"
            /\ result.error = "PaletteBoundsError"
            /\ result.frame = decoder.pos
            /\ result.index = IndexAt(last.frame, q)
            /\ last.stores \cap
                   BytesOfPixel(DestX(last.frame, q), DestY(last.frame, q)) = {}

\* The flushes of this cycle so far equal, flush by flush, those of the
\* previous cycle, and a finished cycle has flushed as many buffers.
CycleRepeats ==
    /\ Len(flushes) <= Len(prevFlushes)
    /\ \A k \in 1..Len(flushes) : flushes[k] = prevFlushes[k]
    /\ (pc = "eos" => Len(flushes) = Len(prevFlushes))

\* C2 as stated: with an unchanged file, every cycle N+1 (N >= 1) flushes
\* the buffers cycle N flushed.
C2_EveryCycleRepeats ==
    (~changed /\ opens >= 2) => CycleRepeats

\* C2 amended: with an unchanged file, every cycle N+1 with N >= 2 flushes
\* the buffers cycle N flushed; the buffer is zero-filled before cycle 1
\* and re-opening leaves it as the last frame left it.
C2_LaterCyclesRepeat ==
    /\ (~changed /\ opens >= 3) => CycleRepeats
    /\ (opens = 0 => fb_frame = Zeros(Len(fb_frame)))
    /\ (pc = "read" /\ decoder.pos = 0 /\ opens >= 2 /\ ~changed /\ prevFlushes # <<>>)
           => fb_frame = prevFlushes[Len(prevFlushes)]

\* C2 witness: the third cycle of an unchanged two-frame file has ended and
\* its two flushes differ from each other.
C2_Witness ==
    /\ ~changed
    /\ opens = 3
    /\ pc = "eos"
    /\ Len(flushes) = 2
    /\ flushes[1] # flushes[2]

\* What single-pass playback of the open stream must look like, given that
\* the precondition pre holds of the stream.
SinglePass(pre) ==
    /\ ~args.once => pc \notin {"done", "returned"}
    /\ (pc # "load" /\ args.once /\ pre) =>
           LET k == Len(decoder.stream.frames)
           IN  /\ pc \in {"read", "frame", "pace", "eos", "done", "returned"}
               /\ result.kind = "running" \/ pc = "returned"
               /\ opens = 1
               /\ Len(flushes) = IF pc = "frame" THEN decoder.pos - 1
                                 ELSE decoder.pos
               /\ flushes = Played(decoder.stream, Len(flushes))
               /\ pc \in {"eos", "done", "returned"} => Len(flushes) = k
               /\ pc \notin {"done", "returned"} =>
                      ENABLED (DecodeFrame \/ EndOfStream \/ ProcessFrame
                               \/ Postpone \/ Break)

C8_Pacing ==
    paced.made =>
        LET f == decoder.stream.frames[decoder.pos]
            target == args.interval * f.delay
            elapsed == paced.elapsed \div TicksPerMs
            wait == IF paced.sleep = <<>> THEN 0 ELSE paced.sleep[1]
        IN  /\ wait = Max(0, target - elapsed)
            /\ wait >= 0
            /\ (elapsed >= target => paced.sleep = <<>>)
            /\ (elapsed < target => paced.sleep = <<target - elapsed>>)
            /\ frame_prepare_elapsed = 0
            /\ pc = "read"

\* C8 witness: with a target of 2 ms and 1 ms elapsed, 1 ms was slept.
C8_Witness ==
    /\ paced.made
    /\ paced.delay = 2
    /\ paced.elapsed \div TicksPerMs = 1
    /\ paced.sleep = <<1>>

\* C9 as stated: in every loop a frame without local palette is composited
\* with the global palette of the stream opened for that loop, a frame
\* with a local palette with its own.
C9_PaletteOfOpenStream ==
    (last.made /\ last.panic.kind = "none" /\ last.drawn # {}) =>
        last.palette = ResolvedPalette(last.frame, decoder.stream)

\* C9 amended: the re-open does not read the global palette again. The
\* palette main copied at the first open is never changed, a frame without
\* local palette is composited with it in every loop (a frame with a local
\* palette with its own), and it is the open stream's global palette as
\* long as the file is unchanged.
C9_PaletteOfFirstStream ==
    /\ [](/\ (opens = 1 => global_palette = StreamGlobal(decoder.stream))
          /\ (last.made =>
                 last.palette = IF last.frame.palette # <<>>
                                THEN last.frame.palette[1]
                                ELSE global_palette)
          /\ (last.made /\ ~changed =>
                 last.palette = ResolvedPalette(last.frame, decoder.stream)))
    /\ [][pc # "load" => global_palette' = global_palette]_vars

\* C9 witness: after the file was replaced, a frame without local palette
\* was composited with a palette that is not the open stream's.
C9_Witness ==
    /\ changed
    /\ last.made
    /\ last.frame.palette = <<>>
    /\ last.panic.kind = "none"
    /\ last.drawn # {}
    /\ last.palette # StreamGlobal(decoder.stream)

====
